---------------------------- MODULE Spec2Model ----------------------------
(***************************************************************************)
(* Article resolution and rendering pipeline of the mds-articles viewer:   *)
(* route parameter -> content path -> fetch -> render -> display.          *)
(*                                                                         *)
(* Strings are sequences of one-character strings, so that the template    *)
(* literal of ArticlesComponent is a real concatenation.  A Markdown       *)
(* document is a sequence of blocks (heading of a level, paragraph, raw    *)
(* HTML element); an HTML document is a sequence of elements.              *)
(***************************************************************************)
EXTENDS Naturals, Sequences, FiniteSets

\* ------------------------------------------------------------------ bounds

\* Route-parameter emissions delivered in one run of the model.
MaxNav == 3

\* The same, in the runs that are followed until the page settles.
MaxNavLive == 2

\* ----------------------------------------------------------------- strings

\* The fixed parts of the template literal `assets/markdown/${...}.md`.
PathPrefix ==
    <<"a","s","s","e","t","s","/","m","a","r","k","d","o","w","n","/">>

PathSuffix == <<".","m","d">>

\* The initial value of the field: filePath = ''.
EmptyString == <<>>

\* Titles the navigation layer may supply.
TitleOop == <<"o","o","p","-","p","a","r","a","d","i","g","m">>

TitleDotnet == <<"d","o","t","n","e","t","-","b","a","c","k","e","n","d">>

TitleTraversal == <<".",".","/","x">>

TitleNotes == <<"n","o","t","e","s">>

Titles == {TitleOop, TitleDotnet, TitleTraversal, TitleNotes, EmptyString}

\* Values of a second route parameter, which the component never reads.
OtherValues == {<<"7">>}

\* ----------------------------------------------------- route parameters

\* A snapshot of the route parameters: a map from some of the keys to strings.
\* The snapshots with a title only, and the one with no key at all.
TitleOnlySnapshots ==
    { [k \in {"title"} |-> t] : t \in Titles } \cup { [k \in {} |-> EmptyString] }

\* Snapshots that carry a second key beside the title.
OtherKeySnapshots ==
    { [k \in {"title", "id"} |-> IF k = "title" THEN TitleOop ELSE v] :
        v \in OtherValues }

ParamSnapshots == TitleOnlySnapshots \cup OtherKeySnapshots

\* A JavaScript value: a string, or undefined.
JsUndefined == [type |-> "undefined"]

JsString(s) == [type |-> "string", val |-> s]

\* params[key]: the value under the key, undefined when the key is absent.
Lookup(params, key) ==
    IF key \in DOMAIN params THEN JsString(params[key]) ELSE JsUndefined

\* ToString as a template literal applies it: undefined becomes "undefined".
ToStr(v) ==
    IF v.type = "undefined"
    THEN <<"u","n","d","e","f","i","n","e","d">>
    ELSE v.val

\* Mutants of PathOf: a lost suffix, a second key read, a sanitised title.
PathOfNoSuffix(params) == PathPrefix \o ToStr(Lookup(params, "title"))

PathOfReadsId(params) ==
    PathPrefix \o ToStr(Lookup(params, "title"))
        \o (IF "id" \in DOMAIN params THEN params["id"] ELSE <<>>) \o PathSuffix

PathOfEmptyOnMissing(params) ==
    IF "title" \in DOMAIN params
    THEN PathPrefix \o params["title"] \o PathSuffix
    ELSE EmptyString

\* `assets/markdown/${params['title']}.md`
PathOf(params) == PathPrefix \o ToStr(Lookup(params, "title")) \o PathSuffix

\* ------------------------------------------------------------- documents

Heading(n) == [kind |-> "heading", level |-> n]

Para == [kind |-> "para"]

RawHtml(t) == [kind |-> "html", tag |-> t]

\* A document made of the given heading levels, each followed by its text.
RECURSIVE Skeleton(_)
Skeleton(levels) ==
    IF levels = <<>> THEN <<>>
    ELSE <<Heading(Head(levels)), Para>> \o Skeleton(Tail(levels))

\* Mutant of OopParadigmMd: the article with its headings written # and ##.
OopParadigmMdTopLevel == Skeleton(<<1, 2, 2, 3, 3, 2, 2, 1, 2, 2, 2, 2, 2, 2>>)

\* The oop-paradigm article: its fourteen headings, in order.
OopParadigmMd == Skeleton(<<3, 4, 4, 5, 5, 4, 4, 3, 4, 4, 4, 4, 4, 4>>)

\* The dotnet-backend article: the headings of its overview section.
DotnetBackendMd == Skeleton(<<1, 3, 3, 3, 3, 3, 3, 3, 3, 3, 3>>)

\* An article with embedded raw HTML, as a deployment may add one.
NotesMd == <<Heading(2), RawHtml("script"), Para, RawHtml("div")>>

Missing == [exists |-> FALSE]

File(md) == [exists |-> TRUE, text |-> md]

\* The static assets of the repository, served from the application's origin.
RepoAssets(path) ==
    IF path = PathPrefix \o TitleOop \o PathSuffix THEN File(OopParadigmMd)
    ELSE IF path = PathPrefix \o TitleDotnet \o PathSuffix
         THEN File(DotnetBackendMd)
    ELSE Missing

\* Every path the component can compute from a snapshot.
AllPaths == { PathOf(p) : p \in ParamSnapshots }

NotesPath == PathPrefix \o TitleNotes \o PathSuffix

\* The asset directories the application may be served with: the repository's
\* files, with or without one further article.
Deployments ==
    { [path \in AllPaths |-> IF path = NotesPath THEN extra ELSE RepoAssets(path)] :
        extra \in {Missing, File(NotesMd)} }

\* ------------------------------------------------------------- rendering

Element(t, n) == [tag |-> t, level |-> n]

\* Markdown to HTML, block by block: a heading of level n becomes <hn>, raw
\* HTML passes through as written.
CompileBlock(b) ==
    IF b.kind = "heading" THEN Element("h", b.level)
    ELSE IF b.kind = "para" THEN Element("p", 0)
    ELSE Element(b.tag, 0)

Compile(md) == [i \in 1..Len(md) |-> CompileBlock(md[i])]

IsScript(e) == e.tag = "script"

KeepsElement(e) == ~IsScript(e)

\* The sanitizer under a security context: NONE returns the HTML as it is,
\* HTML removes the script elements.
Sanitize(ctx, html) ==
    IF ctx = "NONE" THEN html ELSE SelectSeq(html, KeepsElement)

Render(ctx, md) == Sanitize(ctx, Compile(md))

\* What the library shows of its own accord when a load fails.
ErrorDoc == <<Element("error", 0)>>

\* ------------------------------------------------------------ configuration

\* The option the library falls back to when none is given.
AppConfigSanitizeDefault == "HTML"

\* provideMarkdown({ sanitize: SecurityContext.NONE })
AppConfigSanitize == "NONE"

\* A configuration that names no loader.
AppConfigNoLoader == FALSE

\* provideMarkdown({ loader: HttpClient })
AppConfigLoader == TRUE

\* ------------------------------------------------------------------ state

VARIABLES
    filePath,    \* ArticlesComponent.filePath
    sanitize,    \* the security context the renderer was configured with
    assets,      \* the static files behind the application's origin
    emitted,     \* the route-parameter snapshots delivered so far, in order
    issued,      \* the target of every fetch issued so far, in order
    inflight,    \* the fetches (indices of issued) not yet resolved
    resolved,    \* the resolutions so far, in order: [id, ok]
    display,     \* the HTML document on the page
    displaySrc,  \* the fetch whose contents are on the page (0: none)
    subscribed   \* the component's subscription to the parameter stream

vars ==
    <<filePath, sanitize, assets, emitted, issued, inflight, resolved,
      display, displaySrc, subscribed>>

\* Mutant of Init: a field that starts at a path instead of ''.
InitWithPath ==
    /\ filePath = PathPrefix \o PathSuffix
    /\ sanitize = AppConfigSanitize
    /\ assets \in Deployments
    /\ emitted = <<>>
    /\ issued = <<>>
    /\ inflight = {}
    /\ resolved = <<>>
    /\ display = <<>>
    /\ displaySrc = 0
    /\ subscribed = TRUE

Init ==
    /\ filePath = EmptyString
    /\ sanitize = AppConfigSanitize
    /\ assets \in Deployments
    /\ emitted = <<>>
    /\ issued = <<>>
    /\ inflight = {}
    /\ resolved = <<>>
    /\ display = <<>>
    /\ displaySrc = 0
    /\ subscribed = TRUE

\* ---------------------------------------------------------------- actions

\* Mutants of Subscriber: a path that keeps what it held, an ignored emission.
SubscriberMerges(params) ==
    filePath' = filePath \o PathOf(params)

SubscriberOnce(params) ==
    filePath' = IF filePath = EmptyString THEN PathOf(params) ELSE filePath

\* (params) => { this.filePath = `assets/markdown/${params['title']}.md`; }
Subscriber(params) ==
    filePath' = PathOf(params)

\* Mutants of LoadContent: a load that drops the loads before it, one that
\* skips a path it was already given.
LoadContentCancelling(src) ==
    IF AppConfigLoader
    THEN /\ issued' = Append(issued, src)
         /\ inflight' = {Len(issued) + 1}
    ELSE UNCHANGED <<issued, inflight>>

LoadContentOnChange(src) ==
    IF AppConfigLoader /\ src # filePath
    THEN /\ issued' = Append(issued, src)
         /\ inflight' = inflight \cup {Len(issued) + 1}
    ELSE UNCHANGED <<issued, inflight>>

\* The renderer is handed a path: it asks the configured loader for the text
\* at it (without a loader it has nothing to ask).  The loads before it stay
\* in flight.
LoadContent(src) ==
    IF AppConfigLoader
    THEN /\ issued' = Append(issued, src)
         /\ inflight' = inflight \cup {Len(issued) + 1}
    ELSE UNCHANGED <<issued, inflight>>

\* Mutant of Navigate: a subscription that ends with its first emission.
NavigateFirstOnly(params) ==
    /\ Len(emitted) < MaxNav
    /\ subscribed
    /\ Subscriber(params)
    /\ LoadContent(filePath')
    /\ emitted' = Append(emitted, params)
    /\ subscribed' = FALSE
    /\ UNCHANGED <<sanitize, assets, resolved, display, displaySrc>>

\* One route-parameter emission: the subscriber, still subscribed, runs, and
\* the view hands the new path to the renderer.  The subscription stays.
Navigate(params) ==
    /\ Len(emitted) < MaxNav
    /\ subscribed
    /\ Subscriber(params)
    /\ LoadContent(filePath')
    /\ emitted' = Append(emitted, params)
    /\ UNCHANGED <<sanitize, assets, resolved, display, displaySrc, subscribed>>

\* Mutant of FetchSucceed: the rendered text is added to what the page showed.
FetchSucceedAppending(id) ==
    /\ id \in inflight
    /\ assets[issued[id]].exists
    /\ inflight' = inflight \ {id}
    /\ resolved' = Append(resolved, [id |-> id, ok |-> TRUE])
    /\ display' = display \o Render(sanitize, assets[issued[id]].text)
    /\ displaySrc' = id
    /\ UNCHANGED <<filePath, sanitize, assets, emitted, issued, subscribed>>

\* A fetch resolves with the text of the file: it is rendered in place of
\* what the page showed.
FetchSucceed(id) ==
    /\ id \in inflight
    /\ assets[issued[id]].exists
    /\ inflight' = inflight \ {id}
    /\ resolved' = Append(resolved, [id |-> id, ok |-> TRUE])
    /\ display' = Render(sanitize, assets[issued[id]].text)
    /\ displaySrc' = id
    /\ UNCHANGED <<filePath, sanitize, assets, emitted, issued, subscribed>>

\* Mutant of FetchFail: a failed fetch that is issued again.
FetchFailRetrying(id) ==
    /\ id \in inflight
    /\ issued' = Append(issued, issued[id])
    /\ inflight' = (inflight \ {id}) \cup {Len(issued) + 1}
    /\ resolved' = Append(resolved, [id |-> id, ok |-> FALSE])
    /\ UNCHANGED <<filePath, sanitize, assets, emitted, display, displaySrc,
                   subscribed>>

\* Mutant of FetchFail: on a failure the path before is restored and fetched
\* anew.
FetchFailRestoring(id) ==
    /\ id \in inflight
    /\ resolved' = Append(resolved, [id |-> id, ok |-> FALSE])
    /\ IF displaySrc # 0
       THEN /\ filePath' = issued[displaySrc]
            /\ issued' = Append(issued, issued[displaySrc])
            /\ inflight' = (inflight \ {id}) \cup {Len(issued) + 1}
       ELSE /\ inflight' = inflight \ {id}
            /\ UNCHANGED <<filePath, issued>>
    /\ UNCHANGED <<sanitize, assets, emitted, display, displaySrc, subscribed>>

\* A fetch fails (no such file, or the network): the page keeps what it
\* showed, or shows the library's error state.
FetchFail(id) ==
    /\ id \in inflight
    /\ inflight' = inflight \ {id}
    /\ resolved' = Append(resolved, [id |-> id, ok |-> FALSE])
    /\ \/ UNCHANGED <<display, displaySrc>>
       \/ display' = ErrorDoc /\ displaySrc' = 0
    /\ UNCHANGED <<filePath, sanitize, assets, emitted, issued, subscribed>>

Next ==
    \/ \E params \in ParamSnapshots : Navigate(params)
    \/ \E id \in inflight : FetchSucceed(id)
    \/ \E id \in inflight : FetchFail(id)

Spec == Init /\ [][Next]_vars

\* An emission in a run that is followed until the page settles.
NavigateLive(params) ==
    /\ Len(emitted) < MaxNavLive
    /\ Navigate(params)

\* Some fetch in flight resolves, one way or the other.
Resolve ==
    \E id \in inflight : FetchSucceed(id) \/ FetchFail(id)

LiveNext ==
    \/ \E params \in ParamSnapshots : NavigateLive(params)
    \/ \E id \in inflight : FetchSucceed(id)
    \/ \E id \in inflight : FetchFail(id)

\* Emissions may stop at any moment; a fetch in flight does not stay in
\* flight for ever: the HTTP client ends it with a response or an error.
LiveSpec == Init /\ [][LiveNext]_vars /\ WF_vars(Resolve)

\* ---------------------------------------------------------------- claims

Last(seq) == seq[Len(seq)]

HasTitle(params) == "title" \in DOMAIN params

\* The paths below are written out character by character.
TraversalPathLiteral ==
    <<"a","s","s","e","t","s","/","m","a","r","k","d","o","w","n","/",
      ".",".","/","x",".","m","d">>

EmptyTitlePathLiteral ==
    <<"a","s","s","e","t","s","/","m","a","r","k","d","o","w","n","/",
      ".","m","d">>

UndefinedPathLiteral ==
    <<"a","s","s","e","t","s","/","m","a","r","k","d","o","w","n","/",
      "u","n","d","e","f","i","n","e","d",".","m","d">>

OopPathLiteral ==
    <<"a","s","s","e","t","s","/","m","a","r","k","d","o","w","n","/",
      "o","o","p","-","p","a","r","a","d","i","g","m",".","m","d">>

DotnetPathLiteral ==
    <<"a","s","s","e","t","s","/","m","a","r","k","d","o","w","n","/",
      "d","o","t","n","e","t","-","b","a","c","k","e","n","d",".","m","d">>

\* C1: after an emission whose title is a string t, filePath is exactly
\* "assets/markdown/" + t + ".md", t copied character for character, also
\* when t holds '/', '..' or is empty.
C1_PathIsTemplateOfTitle ==
    (emitted # <<>> /\ HasTitle(Last(emitted)))
        => /\ filePath = PathPrefix \o Last(emitted)["title"] \o PathSuffix
           /\ (Last(emitted)["title"] = TitleTraversal
                  => filePath = TraversalPathLiteral)
           /\ (Last(emitted)["title"] = EmptyString
                  => filePath = EmptyTitlePathLiteral)

\* C1 witness: the emissions "../x" and then "" have been delivered, and the
\* path is the one of the empty title.
C1_Witness ==
    /\ Len(emitted) = 2
    /\ HasTitle(emitted[1]) /\ emitted[1]["title"] = TitleTraversal
    /\ HasTitle(emitted[2]) /\ emitted[2]["title"] = EmptyString
    /\ issued[1] = TraversalPathLiteral
    /\ filePath = EmptyTitlePathLiteral

\* The file behind the path of the i-th emission.
FileOfEmission(i) ==
    assets[PathPrefix \o ToStr(Lookup(emitted[i], "title")) \o PathSuffix]

\* The fetch of the latest navigation has succeeded and was the last to
\* resolve, every fetch before it having resolved.
LatestResolvedLast ==
    /\ Len(emitted) >= 2
    /\ inflight = {}
    /\ Len(resolved) = Len(emitted)
    /\ Last(resolved) = [id |-> Len(emitted), ok |-> TRUE]

\* C2: last navigation wins: after navigations to A and then B, with B's
\* fetch resolving after A's, once both have resolved the page shows the
\* contents of B's file, not A's.
C2_LastNavigationWins ==
    LatestResolvedLast
        => /\ FileOfEmission(Len(emitted)).exists
           /\ display = Compile(FileOfEmission(Len(emitted)).text)
           /\ displaySrc = Len(emitted)

\* C2 witness: dotnet-backend then oop-paradigm, resolved in that order, and
\* the page shows the oop-paradigm article.
C2_Witness ==
    /\ LatestResolvedLast
    /\ Len(emitted) = 2
    /\ issued = <<DotnetPathLiteral, OopPathLiteral>>
    /\ resolved = <<[id |-> 1, ok |-> TRUE], [id |-> 2, ok |-> TRUE]>>
    /\ display = Compile(OopParadigmMd)
    /\ display # Compile(DotnetBackendMd)

\* C3: an in-flight fetch is never cancelled: it leaves the set of in-flight
\* fetches only by its own resolution, also when a newer navigation has
\* superseded it (so the state of C3_Witness is reachable).
C3_NoCancellation ==
    [][\A id \in inflight :
          \/ id \in inflight'
          \/ /\ Len(resolved') = Len(resolved) + 1
             /\ Last(resolved').id = id]_vars

\* C3 witness: the fetch of the older path resolved after the fetch of the
\* newer one; the page shows the older file while filePath names the newer.
C3_Witness ==
    /\ Len(emitted) = 2
    /\ issued = <<DotnetPathLiteral, OopPathLiteral>>
    /\ resolved = <<[id |-> 2, ok |-> TRUE], [id |-> 1, ok |-> TRUE]>>
    /\ filePath = OopPathLiteral
    /\ displaySrc = 1
    /\ display = Compile(DotnetBackendMd)
    /\ display # Compile(OopParadigmMd)

\* C4: an emission without a title key gives exactly the path
\* "assets/markdown/undefined.md", the fetch issued for the emission targets
\* it, and that fetch fails.
C4_MissingTitle ==
    /\ (emitted # <<>> /\ ~HasTitle(Last(emitted)))
          => filePath = UndefinedPathLiteral
    /\ \A i \in 1..Len(emitted) :
          ~HasTitle(emitted[i])
             => /\ i <= Len(issued) /\ issued[i] = UndefinedPathLiteral
                /\ ~assets[issued[i]].exists
                /\ \A k \in 1..Len(resolved) :
                      resolved[k].id = i => ~resolved[k].ok

\* C4 witness: the fetch for undefined.md was issued and has failed.
C4_Witness ==
    /\ Len(emitted) = 1
    /\ ~HasTitle(emitted[1])
    /\ filePath = UndefinedPathLiteral
    /\ issued = <<UndefinedPathLiteral>>
    /\ resolved = <<[id |-> 1, ok |-> FALSE]>>

\* A step in which fetch id resolves as failed.
FailsIn(id) ==
    /\ id \in inflight
    /\ Len(resolved') = Len(resolved) + 1
    /\ Last(resolved') = [id |-> id, ok |-> FALSE]

\* C5: when a fetch fails nothing of its path is put on the page and it is
\* not retried: each emission has exactly one fetch, and no fetch is issued
\* except by an emission.
C5_FailureNoSubstitutionNoRetry ==
    [][/\ Len(issued') = Len(emitted')
       /\ (Len(emitted') = Len(emitted) => issued' = issued)
       /\ \A id \in inflight :
             FailsIn(id)
                => /\ issued' = issued
                   /\ inflight' = inflight \ {id}
                   /\ displaySrc' # id
                   /\ display' \in {display, ErrorDoc}]_vars

\* C5 witness: the one fetch of an emission for a title without a file has
\* failed, nothing else was fetched, and the page holds no article.
C5_Witness ==
    /\ Len(emitted) = 1
    /\ HasTitle(emitted[1]) /\ emitted[1]["title"] = TitleTraversal
    /\ ~assets[filePath].exists
    /\ issued = <<TraversalPathLiteral>>
    /\ inflight = {}
    /\ resolved = <<[id |-> 1, ok |-> FALSE]>>
    /\ displaySrc = 0

\* The Markdown text behind the page, when the page shows a fetched file.
DisplayedText == assets[issued[displaySrc]].text

\* C6: sanitization is off in every state, and whatever fetched text is on
\* the page, each of its raw HTML or <script> elements is in the rendered
\* document as written, none removed.
C6_SanitizationDisabled ==
    /\ sanitize = "NONE"
    /\ displaySrc # 0
          => /\ Len(display) = Len(DisplayedText)
             /\ \A i \in 1..Len(DisplayedText) :
                   DisplayedText[i].kind = "html"
                      => display[i] = Element(DisplayedText[i].tag, 0)

\* C6 witness: the article with a raw <script> and a raw <div> is on the
\* page, both elements in it.
C6_Witness ==
    /\ displaySrc # 0
    /\ issued[displaySrc] = NotesPath
    /\ DisplayedText = NotesMd
    /\ display[2] = Element("script", 0)
    /\ display[4] = Element("div", 0)

\* C7: the content path and the fetch target depend on the title alone: two
\* emissions whose snapshots agree on the title and differ in other keys
\* give the same path and the same fetch target.
C7_OnlyTitleIsRead ==
    /\ Len(issued) = Len(emitted)
    /\ emitted # <<>> => filePath = Last(issued)
    /\ \A i, j \in 1..Len(emitted) :
          Lookup(emitted[i], "title") = Lookup(emitted[j], "title")
             => issued[i] = issued[j]

\* C7 witness: two emissions with the same title, one of them with a second
\* key, have given the same path.
C7_Witness ==
    /\ Len(emitted) = 2
    /\ DOMAIN emitted[1] = {"title"}
    /\ DOMAIN emitted[2] = {"title", "id"}
    /\ emitted[1]["title"] = emitted[2]["title"]
    /\ issued[1] = issued[2]
    /\ filePath = OopPathLiteral

IsHeading(b) == b.kind = "heading"

HeadingLevels(md) == { md[i].level : i \in { k \in 1..Len(md) : IsHeading(md[k]) } }

\* The page shows the oop-paradigm article.
ShowsOopParadigm ==
    /\ displaySrc # 0
    /\ HasTitle(emitted[displaySrc])
    /\ emitted[displaySrc]["title"] = TitleOop

\* C8 as stated: for title "oop-paradigm" the article's headings are # and
\* ##, shown as <h1> and <h2>.
C8_Original ==
    ShowsOopParadigm
        => \E i \in 1..Len(display) :
              display[i].tag = "h" /\ display[i].level \in {1, 2}

\* C8 as amended: for title "oop-paradigm" the fetch targets
\* assets/markdown/oop-paradigm.md, and the article's headings, which are of
\* the levels ###, #### and #####, are shown as <h3>, <h4> and <h5> in place.
C8_OopParadigmHeadings ==
    /\ \A i \in 1..Len(emitted) :
          (HasTitle(emitted[i]) /\ emitted[i]["title"] = TitleOop)
             => i <= Len(issued) /\ issued[i] = OopPathLiteral
    /\ ShowsOopParadigm
          => /\ DisplayedText = OopParadigmMd
             /\ HeadingLevels(DisplayedText) = {3, 4, 5}
             /\ Len(display) = Len(DisplayedText)
             /\ \A i \in 1..Len(DisplayedText) :
                   IF IsHeading(DisplayedText[i])
                   THEN display[i] = Element("h", DisplayedText[i].level)
                   ELSE display[i].tag # "h"

\* C8 witness: the oop-paradigm article was fetched and is on the page, its
\* first heading an <h3>.
C8_Witness ==
    /\ ShowsOopParadigm
    /\ issued[displaySrc] = OopPathLiteral
    /\ display[1] = Element("h", 3)
    /\ display[3] = Element("h", 4)
    /\ display[7] = Element("h", 5)

\* The path the template gives for a snapshot, written out.
TemplateOf(params) ==
    IF HasTitle(params)
    THEN PathPrefix \o params["title"] \o PathSuffix
    ELSE UndefinedPathLiteral

\* C9: filePath is overwritten, not merged: an emission leaves in it the
\* path of its own title and nothing of the path before, and no step other
\* than an emission (a fetch succeeding or failing, a render) changes it.
C9_PathOverwritten ==
    [][IF Len(emitted') = Len(emitted)
       THEN filePath' = filePath
       ELSE /\ emitted' = Append(emitted, Last(emitted'))
            /\ filePath' = TemplateOf(Last(emitted'))]_vars

\* C9 witness: after the emissions dotnet-backend and "../x", and the first
\* fetch resolved, the path is that of "../x" alone.
C9_Witness ==
    /\ Len(emitted) = 2
    /\ issued = <<DotnetPathLiteral, TraversalPathLiteral>>
    /\ resolved = <<[id |-> 1, ok |-> TRUE]>>
    /\ filePath = TraversalPathLiteral

\* What is left of the model's run: emissions not yet delivered.
MoreEmissions == Len(emitted) < MaxNav

\* C10: no state is terminal: in every state (path unset, fetch in flight,
\* succeeded, failed) each further emission is accepted, this one a repeat of
\* the title before it or not; and each emission delivered has set its path
\* and started one fetch for it.
C10_NoTerminalState ==
    /\ MoreEmissions => \A params \in ParamSnapshots : ENABLED Navigate(params)
    /\ Len(issued) = Len(emitted)
    /\ \A i \in 1..Len(emitted) : issued[i] = TemplateOf(emitted[i])
    /\ emitted # <<>>
          => /\ filePath = TemplateOf(Last(emitted))
             /\ (\A k \in 1..Len(resolved) : resolved[k].id # Len(emitted))
                   => Len(emitted) \in inflight

\* C10 witness: an emission failed to fetch, the same title was emitted
\* again, and a second fetch for the same path is in flight.
C10_Witness ==
    /\ Len(emitted) = 2
    /\ emitted[1] = emitted[2]
    /\ issued = <<TraversalPathLiteral, TraversalPathLiteral>>
    /\ resolved = <<[id |-> 1, ok |-> FALSE]>>
    /\ inflight = {2}
    /\ filePath = TraversalPathLiteral

\* Fetch i has resolved with the text of its file.
Succeeded(i) ==
    \E k \in 1..Len(resolved) : resolved[k] = [id |-> i, ok |-> TRUE]

\* C11: the rendered document is replaced wholesale: the page is empty, or in
\* the library's error state, or holds the whole of exactly one file, the one
\* a fetch issued for an emitted path came back with; never parts of two.
C11_ReplacedWholesale ==
    \/ display = <<>> /\ displaySrc = 0
    \/ display = ErrorDoc /\ displaySrc = 0
    \/ /\ displaySrc \in 1..Len(emitted)
       /\ Succeeded(displaySrc)
       /\ issued[displaySrc] = TemplateOf(emitted[displaySrc])
       /\ assets[issued[displaySrc]].exists
       /\ display = Compile(assets[issued[displaySrc]].text)

\* C11 witness: the dotnet-backend article was on the page and the
\* oop-paradigm article has taken its place, whole and alone.
C11_Witness ==
    /\ issued = <<DotnetPathLiteral, OopPathLiteral, DotnetPathLiteral>>
    /\ resolved = <<[id |-> 1, ok |-> TRUE], [id |-> 3, ok |-> TRUE],
                    [id |-> 2, ok |-> TRUE]>>
    /\ displaySrc = 2
    /\ display = Compile(OopParadigmMd)
    /\ Len(display) = Len(OopParadigmMd)

\* C12: the component never releases its subscription: it is subscribed in
\* every state, and each further emission, whatever the number delivered
\* before it, runs the subscriber and leaves its path in filePath.
C12_NeverUnsubscribed ==
    /\ subscribed
    /\ MoreEmissions
          => \A params \in ParamSnapshots :
                ENABLED (Navigate(params) /\ filePath' = TemplateOf(params))

\* C12 witness: a third emission in a row was delivered to the subscriber
\* and changed the path.
C12_Witness ==
    /\ subscribed
    /\ Len(emitted) >= 3
    /\ emitted[Len(emitted)] # emitted[Len(emitted) - 1]
    /\ emitted[Len(emitted) - 1] # emitted[Len(emitted) - 2]
    /\ filePath = TemplateOf(Last(emitted))
    /\ filePath = UndefinedPathLiteral

\* The title as the path carries it: the string given, or "undefined".
TitleText(params) ==
    IF HasTitle(params) THEN params["title"]
    ELSE <<"u","n","d","e","f","i","n","e","d">>

\* path reads "assets/markdown/" + text + ".md".
HasPathForm(path, text) ==
    /\ Len(path) = Len(PathPrefix) + Len(text) + Len(PathSuffix)
    /\ SubSeq(path, 1, Len(PathPrefix)) = PathPrefix
    /\ SubSeq(path, Len(PathPrefix) + 1, Len(PathPrefix) + Len(text)) = text
    /\ SubSeq(path, Len(path) - Len(PathSuffix) + 1, Len(path)) = PathSuffix

\* C14: every fetch ever issued targets "assets/markdown/<t>.md" with t the
\* title of an emission already delivered ("undefined" when it had none);
\* none is issued for the initial path '', and each targets the value
\* filePath was given in the step that issued it.
C14_FetchTargets ==
    /\ [](/\ Len(issued) <= Len(emitted)
          /\ \A i \in 1..Len(issued) :
                /\ issued[i] # EmptyString
                /\ HasPathForm(issued[i], TitleText(emitted[i])))
    /\ [][issued' # issued
             => /\ Len(emitted') = Len(emitted) + 1
                /\ issued' = Append(issued, filePath')
                /\ filePath' # EmptyString]_vars

\* C14 witness: three fetches were issued, for an emission without a title,
\* one with the empty title and one with "../x".
C14_Witness ==
    /\ Len(emitted) = 3
    /\ ~HasTitle(emitted[1])
    /\ issued = <<UndefinedPathLiteral, EmptyTitlePathLiteral,
                  TraversalPathLiteral>>
    /\ inflight = {1, 2, 3}

\* Fetch i has resolved as failed.
Failed(i) ==
    \E k \in 1..Len(resolved) : resolved[k] = [id |-> i, ok |-> FALSE]

\* The fetch of the latest navigation has failed, one before it succeeded.
NewerFailedAfterOlderSucceeded ==
    /\ Len(emitted) >= 2
    /\ Failed(Len(emitted))
    /\ \E a \in 1..(Len(emitted) - 1) : Succeeded(a)

\* C16: a failed fetch for a newer path brings no older path back: after a
\* navigation to A whose fetch succeeded and one to B whose fetch fails,
\* filePath stays B's path, no fetch exists but the one each emission
\* issued, and the page holds the error state or what a fetch of an earlier
\* emission put there, never anything of B.
C16_FailureRestoresNothing ==
    NewerFailedAfterOlderSucceeded
        => /\ filePath = TemplateOf(Last(emitted))
           /\ Len(issued) = Len(emitted)
           /\ \/ display = ErrorDoc /\ displaySrc = 0
              \/ /\ displaySrc \in 1..(Len(emitted) - 1)
                 /\ Succeeded(displaySrc)
                 /\ display = Compile(FileOfEmission(displaySrc).text)

\* C16 witness: oop-paradigm was fetched and shown, the fetch for "../x"
\* failed; the path is that of "../x" and the page still shows oop-paradigm.
C16_Witness ==
    /\ NewerFailedAfterOlderSucceeded
    /\ issued = <<OopPathLiteral, TraversalPathLiteral>>
    /\ resolved = <<[id |-> 1, ok |-> TRUE], [id |-> 2, ok |-> FALSE]>>
    /\ filePath = TraversalPathLiteral
    /\ displaySrc = 1
    /\ display = Compile(OopParadigmMd)

\* C17: before the first emission filePath is ''; once an emission has been
\* delivered it is never '' again: it begins with "assets/markdown/" and
\* ends with ".md".
C17_EmptyOnlyBeforeFirstEmission ==
    IF emitted = <<>>
    THEN filePath = EmptyString
    ELSE /\ filePath # EmptyString
         /\ Len(filePath) >= Len(PathPrefix) + Len(PathSuffix)
         /\ SubSeq(filePath, 1, Len(PathPrefix)) = PathPrefix
         /\ SubSeq(filePath, Len(filePath) - Len(PathSuffix) + 1, Len(filePath))
               = PathSuffix

\* C17 witness: the empty title was emitted, and the path is "assets/markdown/.md".
C17_Witness ==
    /\ Len(emitted) = 1
    /\ HasTitle(emitted[1]) /\ emitted[1]["title"] = EmptyString
    /\ filePath = EmptyTitlePathLiteral
    /\ filePath # EmptyString
    /\ Len(filePath) = Len(PathPrefix) + Len(PathSuffix)

\* Every fetch resolved so far resolved with its file.
AllSucceeded == \A k \in 1..Len(resolved) : resolved[k].ok

\* The fetches resolved so far resolved in the order they were issued.
ResolvedInIssueOrder == \A k \in 1..Len(resolved) : resolved[k].id = k

\* Nothing is in flight, and the page is as C15 says it settles.
Settled ==
    /\ inflight = {}
    /\ (emitted # <<>> /\ AllSucceeded)
          => /\ displaySrc \in 1..Len(emitted)
             /\ FileOfEmission(displaySrc).exists
             /\ display = Compile(FileOfEmission(displaySrc).text)
    /\ (emitted # <<>> /\ AllSucceeded /\ ResolvedInIssueOrder)
          => /\ displaySrc = Len(emitted)
             /\ issued[displaySrc] = filePath
             /\ FileOfEmission(Len(emitted)).exists
             /\ display = Compile(FileOfEmission(Len(emitted)).text)

\* C15: quiescence: once emissions have stopped and every fetch in flight has
\* resolved, the page stays as it is; if the fetches all succeeded it shows
\* the file of an emitted path, and if they also resolved in the order they
\* were issued, the file of the last emitted path, the one filePath names.
C15_Quiescence == <>[]Settled

\* C15 witness: oop-paradigm then dotnet-backend, both fetched with success
\* in that order, nothing in flight, the page showing dotnet-backend.
C15_Witness ==
    /\ Settled
    /\ AllSucceeded /\ ResolvedInIssueOrder
    /\ issued = <<OopPathLiteral, DotnetPathLiteral>>
    /\ Len(resolved) = 2
    /\ filePath = DotnetPathLiteral
    /\ display = Compile(DotnetBackendMd)

=============================================================================
